---- MODULE Spec2Model ----
(***************************************************************************)
(* Model of the dynamic-analysis pipeline of exynex.py: main() and         *)
(* perform_dynamic_analysis() drive a linear sequence of blocking stages   *)
(* (device check, install, uid, iptables, mitmdump, launch, activity,      *)
(* stop, iptables unset, capture read, uninstall, report).  Every stage    *)
(* talks to the device / host through external commands; the text such a   *)
(* command prints is an input of the stage.  A stage fails by raising      *)
(* SystemExit(1); nothing in the program catches it, so a raise ends the   *)
(* run on the spot.                                                        *)
(***************************************************************************)
EXTENDS Integers, Sequences, FiniteSets

VARIABLES
    pc,                \* stage of main() about to run, or "Complete" / "Aborted"
    err,               \* message logged by the stage that raised ("" if none)
    platform,          \* sys.platform
    magisk,            \* device_data['magisk']
    net,               \* firewall / NAT state of device and host
    mitm,              \* mitmdump process: "none", "running", "exited", "stopped"
    installed,         \* package present on the device
    appRunning,        \* application process alive on the device
    uid,               \* uid returned by get_uid ("" before)
    pid,               \* runtime_data['pid'] ("" before)
    network_activity,  \* dynamic_analysis['network_activity']
    calls,             \* functions of the program invoked so far, in order
    cmds,              \* external commands issued so far, in order
    now,               \* wall clock, in seconds
    activity_time,     \* --activity_time
    start_timestamp,   \* runtime_data['start_timestamp'] (-1 before)
    entered,           \* wall clock when activity() was entered (-1 before)
    passed_time        \* local variable of activity()

timeVars == <<now, activity_time, start_timestamp, entered, passed_time>>

vars == <<pc, err, platform, magisk, net, mitm, installed, appRunning,
          uid, pid, network_activity, calls, cmds, timeVars>>

\* Number of operations invoked in a row by the stand-alone specification
\* SpecOps (set_iptables, unset_iptables, start_mitm, stop_mitm called
\* directly, in any order).
MaxOpCalls == 3

\* Largest --activity_time explored.
MaxActivityTime == 4

\* Largest delay, in seconds, between the launch timestamp taken by
\* start_application and the entry of activity().
MaxDelay == 3

\* time.sleep(2) sleeps at least 2 s; largest overshoot explored.
MaxJitter == 1

\* The polling interval of activity().
SleepSeconds == 2

Platforms == {"linux", "darwin"}

\* One entry of the transcript of external commands: the command, and
\* whether its output was the failure signal (text printed by a command
\* that is silent on success, or a missing success marker).
C(c, fail) == [cmd |-> c, fail |-> fail]

\* Network state before the run: open egress, no uid rule, NAT tables that
\* may hold rules the run did not install.
CleanNets ==
    [devPolicy : {"ACCEPT"}, devUidAccept : {FALSE},
     devNat : SUBSET {"foreign"}, hostNat : SUBSET {"foreign"},
     hostFwd : {FALSE}]

----------------------------------------------------------------------------
(* stop_mitm: pkill by name; the exit status of os.system is discarded.    *)

\* Variant that treats pkill's "no process matched" status as an error.
stop_mitm_checked(m, plat) ==
    [mitm   |-> IF m = "running" THEN "stopped" ELSE m,
     cmds   |-> IF plat = "linux" THEN <<C("pkill -TERM mitmdump", FALSE)>>
                ELSE IF plat = "darwin" THEN <<C("pkill -f mitmdump", FALSE)>>
                ELSE <<>>,
     raised |-> IF m = "running" THEN "" ELSE "pkill: no process matched"]

stop_mitm(m, plat) ==
    [mitm   |-> IF m = "running" THEN "stopped" ELSE m,
     cmds   |-> IF plat = "linux" THEN <<C("pkill -TERM mitmdump", FALSE)>>
                ELSE IF plat = "darwin" THEN <<C("pkill -f mitmdump", FALSE)>>
                ELSE <<>>,
     raised |-> ""]

----------------------------------------------------------------------------
(* set_iptables.  f holds, per command, whether it printed anything        *)
(* (printed text is what the code takes as the error report).  A command   *)
(* that reports an error has no effect.                                    *)

\* Variant that looks at the output of the policy command only.
DeviceSetupError_DropOnly(ret_drop, ret_accept) == ret_drop

DeviceSetupError(ret_drop, ret_accept) == ret_drop \/ ret_accept

\* Variant that looks at the output of the redirect rule only.
HostSetupError_Ipt5Only(ret_ipt1, ret_ipt5) == ret_ipt5

HostSetupError(ret_ipt1, ret_ipt5) == ret_ipt1 \/ ret_ipt5

SetFaults == [drop : BOOLEAN, accept : BOOLEAN, ipt1 : BOOLEAN,
              sysctl : BOOLEAN, ipt5 : BOOLEAN]

DevicePhaseCmds(f) == <<C("dev_drop", f.drop), C("dev_accept", f.accept)>>

HostPhaseCmds(plat, f) ==
    IF plat = "linux"
    THEN <<C("ipt1_host", f.ipt1), C("ipt2_host", f.sysctl),
           C("ipt3_host", f.sysctl), C("ipt4_host", f.sysctl),
           C("ipt5_host", f.ipt5)>>
    ELSE IF plat = "darwin" THEN <<C("ipt1_host_mac", f.sysctl)>>
    ELSE <<>>

set_iptables(n, plat, f) ==
    LET n1 == IF f.drop THEN n ELSE [n EXCEPT !.devPolicy = "DROP"]
        n2 == IF f.accept THEN n1 ELSE [n1 EXCEPT !.devUidAccept = TRUE]
    IN  IF DeviceSetupError(f.drop, f.accept)
        THEN [net |-> n2, cmds |-> DevicePhaseCmds(f),
              raised |-> "Device setup error!"]
        ELSE IF plat = "linux"
        THEN LET n3 == IF f.ipt1 THEN n2 ELSE [n2 EXCEPT !.hostNat = {}]
                 n4 == IF f.sysctl THEN n3 ELSE [n3 EXCEPT !.hostFwd = TRUE]
                 n5 == IF f.ipt5 THEN n4
                       ELSE [n4 EXCEPT !.hostNat = @ \cup {"redirect"}]
             IN  [net |-> n5, cmds |-> DevicePhaseCmds(f) \o HostPhaseCmds(plat, f),
                  raised |-> IF HostSetupError(f.ipt1, f.ipt5)
                             THEN "Host setup error!" ELSE ""]
        ELSE IF plat = "darwin"
        THEN [net |-> IF f.sysctl THEN n2 ELSE [n2 EXCEPT !.hostFwd = TRUE],
              cmds |-> DevicePhaseCmds(f) \o HostPhaseCmds(plat, f),
              raised |-> ""]
        ELSE [net |-> n2, cmds |-> DevicePhaseCmds(f), raised |-> ""]

----------------------------------------------------------------------------
(* unset_iptables.                                                         *)

\* Variant that looks at the output of the policy command only.
DeviceUnsetError_AcceptOnly(ret_accept, ret_nat) == ret_accept

\* Variant with the test on the policy command's output inverted.
DeviceUnsetError_Inverted(ret_accept, ret_nat) == ~ret_accept \/ ret_nat

DeviceUnsetError(ret_accept, ret_nat) == ret_accept \/ ret_nat

UnsetFaults == [accept : BOOLEAN, devnat : BOOLEAN, hostnat : BOOLEAN]

\* Variant that flushes the host NAT table before touching the device.
unset_iptables_host_first(n, plat, f) ==
    LET n0 == IF plat = "linux" /\ ~f.hostnat
              THEN [n EXCEPT !.hostNat = {}] ELSE n
        hostCmds == IF plat = "linux"
                    THEN <<C("unset ipt1_host", f.hostnat)>> ELSE <<>>
    IN  IF plat = "linux" /\ f.hostnat
        THEN [net |-> n0, cmds |-> hostCmds,
              raised |-> "Host iptables unset error!"]
        ELSE LET n1 == IF f.accept THEN n0
                       ELSE [n0 EXCEPT !.devPolicy = "ACCEPT"]
                 n2 == IF f.devnat THEN n1 ELSE [n1 EXCEPT !.devNat = {}]
             IN  [net |-> n2,
                  cmds |-> hostCmds \o <<C("ipt1_device", f.accept),
                                         C("ipt2_device", f.devnat)>>,
                  raised |-> IF f.accept \/ f.devnat
                             THEN "Device iptables unset error" ELSE ""]

unset_iptables(n, plat, f) ==
    LET n1 == IF f.accept THEN n ELSE [n EXCEPT !.devPolicy = "ACCEPT"]
        n2 == IF f.devnat THEN n1 ELSE [n1 EXCEPT !.devNat = {}]
        devCmds == <<C("ipt1_device", f.accept), C("ipt2_device", f.devnat)>>
    IN  IF DeviceUnsetError(f.accept, f.devnat)
        THEN [net |-> n2, cmds |-> devCmds,
              raised |-> "Device iptables unset error"]
        ELSE IF plat = "linux"
        THEN [net |-> IF f.hostnat THEN n2 ELSE [n2 EXCEPT !.hostNat = {}],
              cmds |-> devCmds \o <<C("unset ipt1_host", f.hostnat)>>,
              raised |-> IF f.hostnat THEN "Host iptables unset error!"
                         ELSE ""]
        ELSE [net |-> n2, cmds |-> devCmds, raised |-> ""]

----------------------------------------------------------------------------
Init ==
    /\ pc = "check_command_line"
    /\ err = ""
    /\ platform \in Platforms
    /\ magisk = FALSE
    /\ net \in CleanNets
    /\ mitm = "none"
    /\ installed \in BOOLEAN
    /\ appRunning = FALSE
    /\ uid = ""
    /\ pid = ""
    /\ network_activity = "unset"
    /\ calls = <<>>
    /\ cmds = <<>>
    /\ now = 0
    /\ activity_time \in 1..MaxActivityTime
    /\ start_timestamp = -1
    /\ entered = -1
    /\ passed_time = 0

\* raise SystemExit(1) after logging msg: the run ends here.
Raise(msg) == pc' = "Aborted" /\ err' = msg

Goto(stage) == pc' = stage /\ err' = err

Terminal == pc \in {"Complete", "Aborted"}

----------------------------------------------------------------------------
(* Stages of main() before the dynamic analysis.                           *)

check_command_line ==
    /\ pc = "check_command_line"
    /\ \E check_path_to_apk \in BOOLEAN, writable \in BOOLEAN :
         IF ~check_path_to_apk
         THEN Raise("There is no apk on the specified path")
         ELSE IF ~writable THEN Raise("Could not write output")
         ELSE Goto("start_jadx")
    /\ calls' = Append(calls, "check_command_line")
    /\ UNCHANGED <<timeVars, platform, magisk, net, mitm, installed, appRunning,
                   uid, pid, network_activity, cmds>>

start_jadx ==
    /\ pc = "start_jadx"
    /\ \E oserror \in BOOLEAN :
         /\ cmds' = Append(cmds, C("jadx", oserror))
         /\ IF oserror THEN Raise("Jadx runtime error")
            ELSE Goto("check_device")
    /\ calls' = Append(calls, "start_jadx")
    /\ UNCHANGED <<timeVars, platform, magisk, net, mitm, installed, appRunning,
                   uid, pid, network_activity>>

\* check_device calls is_magisk() only when a device answered.
check_device ==
    /\ pc = "check_device"
    /\ \E ret_val \in BOOLEAN, m \in BOOLEAN :
         IF ~ret_val
         THEN /\ Raise("Error checking devices!")
              /\ magisk' = magisk
              /\ calls' = Append(calls, "check_device")
              /\ cmds' = Append(cmds, C("adb devices", TRUE))
         ELSE /\ Goto("get_badging")
              /\ magisk' = m
              /\ calls' = calls \o <<"check_device", "is_magisk">>
              /\ cmds' = cmds \o <<C("adb devices", FALSE),
                                   C("pm list packages | grep magisk", FALSE)>>
    /\ UNCHANGED <<timeVars, platform, net, mitm, installed, appRunning,
                   uid, pid, network_activity>>

get_badging ==
    /\ pc = "get_badging"
    /\ \E ok \in BOOLEAN :
         /\ cmds' = Append(cmds, C("aapt dump badging", ~ok))
         /\ IF ok THEN Goto("install_apk")
            ELSE Raise("Error getting badging.")
    /\ calls' = Append(calls, "get_badging")
    /\ UNCHANGED <<timeVars, platform, magisk, net, mitm, installed, appRunning,
                   uid, pid, network_activity>>

InstallFaults == [selinux : BOOLEAN, pushed : BOOLEAN, success : BOOLEAN]

\* Variant that does not look for the 'file pushed' marker.
install_apk_fn_unchecked_push(package_presents, f) ==
    IF ~package_presents
    THEN IF f.selinux
         THEN [installed |-> FALSE,
               cmds |-> <<C("pm list packages | grep package", FALSE),
                          C("setenforce 0", TRUE)>>,
               raised |-> "Error with set SELinux!"]
         ELSE [installed |-> f.success,
               cmds |-> <<C("pm list packages | grep package", FALSE),
                          C("setenforce 0", FALSE), C("adb push", ~f.pushed),
                          C("pm install", ~f.success)>>,
               raised |-> IF f.success THEN ""
                          ELSE "APK installation error!"]
    ELSE [installed |-> TRUE,
          cmds |-> <<C("pm list packages | grep package", FALSE)>>,
          raised |-> ""]

\* Variant that installs without looking at the package listing.
install_apk_fn_always(package_presents, f) ==
    [installed |-> f.success,
     cmds |-> <<C("pm list packages | grep package", FALSE),
                C("setenforce 0", FALSE), C("adb push", FALSE),
                C("pm install", ~f.success)>>,
     raised |-> IF f.success THEN "" ELSE "APK installation error!"]

\* install_apk: package_presents is the output of the package listing.
install_apk_fn(package_presents, f) ==
    IF ~package_presents
    THEN IF f.selinux
         THEN [installed |-> FALSE,
               cmds |-> <<C("pm list packages | grep package", FALSE),
                          C("setenforce 0", TRUE)>>,
               raised |-> "Error with set SELinux!"]
         ELSE IF ~f.pushed
         THEN [installed |-> FALSE,
               cmds |-> <<C("pm list packages | grep package", FALSE),
                          C("setenforce 0", FALSE), C("adb push", TRUE)>>,
               raised |-> "Error with pushing!"]
         ELSE [installed |-> f.success,
               cmds |-> <<C("pm list packages | grep package", FALSE),
                          C("setenforce 0", FALSE), C("adb push", FALSE),
                          C("pm install", ~f.success)>>,
               raised |-> IF f.success THEN ""
                          ELSE "APK installation error!"]
    ELSE [installed |-> TRUE,
          cmds |-> <<C("pm list packages | grep package", FALSE)>>,
          raised |-> ""]

install_apk ==
    /\ pc = "install_apk"
    /\ \E f \in InstallFaults :
         LET r == install_apk_fn(installed, f)
         IN  /\ installed' = r.installed
             /\ cmds' = cmds \o r.cmds
             /\ IF r.raised # "" THEN Raise(r.raised)
                ELSE Goto("perform_static_analysis")
    /\ calls' = Append(calls, "install_apk")
    /\ UNCHANGED <<timeVars, platform, magisk, net, mitm, appRunning,
                   uid, pid, network_activity>>

perform_static_analysis ==
    /\ pc = "perform_static_analysis"
    /\ Goto("get_uid")
    /\ calls' = Append(calls, "perform_static_analysis")
    /\ UNCHANGED <<timeVars, platform, magisk, net, mitm, installed, appRunning,
                   uid, pid, network_activity, cmds>>

----------------------------------------------------------------------------
(* perform_dynamic_analysis, one action per call it makes.                 *)

\* Output of `dumpsys package | grep -o "userId=\S*"`:
\*   "nomarker"  nothing printed: uid.index('=') raises ValueError
\*   "emptyuid"  "userId=" with nothing after it: uid == ''
\*   "marker"    "userId=u0_a123"
UidOutputs == {"nomarker", "emptyuid", "marker"}

get_uid ==
    /\ pc = "get_uid"
    /\ \E out \in UidOutputs :
         /\ cmds' = Append(cmds, C("dumpsys package", out # "marker"))
         /\ CASE out = "nomarker" -> Raise("ValueError") /\ uid' = uid
              [] out = "emptyuid" ->
                   Raise("Error getting the uid!") /\ uid' = uid
              [] out = "marker" -> Goto("set_iptables") /\ uid' = "u0_a123"
    /\ calls' = calls \o <<"perform_dynamic_analysis", "get_uid">>
    /\ UNCHANGED <<timeVars, platform, magisk, net, mitm, installed, appRunning,
                   pid, network_activity>>

set_iptables_stage ==
    /\ pc = "set_iptables"
    /\ \E f \in SetFaults :
         LET r == set_iptables(net, platform, f)
         IN  /\ net' = r.net
             /\ cmds' = cmds \o r.cmds
             /\ IF r.raised # "" THEN Raise(r.raised)
                ELSE Goto("start_mitm")
    /\ calls' = Append(calls, "set_iptables")
    /\ UNCHANGED <<timeVars, platform, magisk, mitm, installed, appRunning,
                   uid, pid, network_activity>>

\* Popen.returncode stays None until poll() / wait() is called; start_mitm
\* calls neither, so this is the value read after the sleep.
Returncode == "None"

StartupError(retcode) == retcode \notin {"None", "0"}

\* process: state of the mitmdump process when the 5 s sleep is over.
start_mitm_fn(process, plat) ==
    IF StartupError(Returncode)
    THEN LET s == stop_mitm(process, plat)
         IN  [mitm |-> s.mitm,
              cmds |-> <<C("mitmdump", process = "exited")>> \o s.cmds,
              calls |-> <<"start_mitm", "stop_mitm">>,
              raised |-> "Mitmdump startup error"]
    ELSE [mitm |-> process,
          cmds |-> <<C("mitmdump", process = "exited")>>,
          calls |-> <<"start_mitm">>,
          raised |-> ""]

start_mitm ==
    /\ pc = "start_mitm"
    /\ \E process \in {"running", "exited"} :
         LET r == start_mitm_fn(process, platform)
         IN  /\ mitm' = r.mitm
             /\ cmds' = cmds \o r.cmds
             /\ calls' = calls \o r.calls
             /\ IF r.raised # "" THEN Raise(r.raised)
                ELSE Goto("start_application")
    /\ UNCHANGED <<timeVars, platform, magisk, net, installed, appRunning,
                   uid, pid, network_activity>>

LaunchCmds(app_status) ==
    <<C("monkey", FALSE), C("ps | grep package", ~app_status)>>

\* Variant that takes the launch for granted.
LaunchObserved_Always(app_status) == TRUE

\* The test `len(app_status)` on the process listing.
LaunchObserved(app_status) == app_status

\* app_status: output of `adb shell ps | grep package` after the launch.
start_application ==
    /\ pc = "start_application"
    /\ \E app_status \in BOOLEAN :
         /\ appRunning' = app_status
         /\ IF LaunchObserved(app_status)
            THEN /\ pid' = "proc.pid"
                 /\ start_timestamp' = now
                 /\ mitm' = mitm
                 /\ cmds' = cmds \o LaunchCmds(app_status)
                 /\ calls' = Append(calls, "start_application")
                 /\ Goto("activity")
            ELSE LET s == stop_mitm(mitm, platform)
                 IN  /\ pid' = pid
                     /\ start_timestamp' = start_timestamp
                     /\ mitm' = s.mitm
                     /\ cmds' = cmds \o LaunchCmds(app_status)
                                     \o s.cmds
                     /\ calls' = calls \o <<"start_application", "stop_mitm">>
                     /\ Raise("Runtime error!")
    /\ UNCHANGED <<platform, magisk, net, installed, uid, network_activity,
                   now, activity_time, entered, passed_time>>

\* passed_time = now_timestamp - start_timestamp
PassedTime(now_timestamp, anchor) == now_timestamp - anchor

\* Variant that counts the time from the entry of activity(), not from the
\* anchor: the delay before the call is added on top of the window.
StillWaiting_FromCall(passed, duration) ==
    passed - (entered - start_timestamp) <= duration

\* The loop test of activity().
StillWaiting(passed, duration) == passed <= duration

\* Entry of activity(), d seconds after the launch timestamp was taken:
\* the first reading of the clock.
activity ==
    /\ pc = "activity"
    /\ \E d \in 0..MaxDelay :
         /\ now' = now + d
         /\ entered' = now + d
         /\ passed_time' = PassedTime(now + d, start_timestamp)
    /\ Goto("activity_loop")
    /\ calls' = Append(calls, "activity")
    /\ UNCHANGED <<platform, magisk, net, mitm, installed, appRunning,
                   uid, pid, network_activity, cmds, activity_time,
                   start_timestamp>>

\* Variant with the sleep and the second reading of the clock left out:
\* the loop spins on the first reading.
activity_loop_stale ==
    /\ pc = "activity_loop"
    /\ IF StillWaiting(passed_time, activity_time)
       THEN Goto("activity_loop")
       ELSE Goto("get_geo")
    /\ UNCHANGED <<platform, magisk, net, mitm, installed, appRunning,
                   uid, pid, network_activity, calls, cmds, timeVars>>

\* One test of the loop of activity(): sleep and read the clock again, or
\* leave the loop and return.
activity_loop ==
    /\ pc = "activity_loop"
    /\ IF StillWaiting(passed_time, activity_time)
       THEN \E j \in 0..MaxJitter :
              /\ now' = now + SleepSeconds + j
              /\ passed_time' =
                    PassedTime(now + SleepSeconds + j, start_timestamp)
              /\ Goto("activity_loop")
       ELSE /\ Goto("get_geo")
            /\ UNCHANGED <<now, passed_time>>
    /\ UNCHANGED <<platform, magisk, net, mitm, installed, appRunning,
                   uid, pid, network_activity, calls, cmds, activity_time,
                   start_timestamp, entered>>

get_geo ==
    /\ pc = "get_geo"
    /\ Goto("stop_application")
    /\ calls' = Append(calls, "get_geo")
    /\ cmds' = Append(cmds, C("dumpsys location", FALSE))
    /\ UNCHANGED <<timeVars, platform, magisk, net, mitm, installed, appRunning,
                   uid, pid, network_activity>>

StopCmds(app_status) ==
    <<C("am force-stop", FALSE), C("ps -p pid", app_status)>>

\* killed: the force-stop ended the application.  app_status: output of
\* `adb shell ps -p pid | grep pid`, where pid is the pid of the local
\* launcher process, so the two are independent.
stop_application ==
    /\ pc = "stop_application"
    /\ \E killed \in BOOLEAN, app_status \in BOOLEAN :
         /\ appRunning' = (appRunning /\ ~killed)
         /\ IF ~app_status
            THEN /\ mitm' = mitm
                 /\ cmds' = cmds \o StopCmds(app_status)
                 /\ calls' = Append(calls, "stop_application")
                 /\ Goto("stop_mitm")
            ELSE LET s == stop_mitm(mitm, platform)
                 IN  /\ mitm' = s.mitm
                     /\ cmds' = cmds \o StopCmds(app_status)
                                     \o s.cmds
                     /\ calls' = calls \o <<"stop_application", "stop_mitm">>
                     /\ Raise("Error stopping the application!")
    /\ UNCHANGED <<timeVars, platform, magisk, net, installed, uid, pid,
                   network_activity>>

\* Variant without the stop_mitm() call that follows stop_application().
stop_mitm_stage_skipped ==
    /\ pc = "stop_mitm"
    /\ Goto("unset_iptables")
    /\ UNCHANGED <<timeVars, platform, magisk, net, mitm, installed, appRunning,
                   uid, pid, network_activity, calls, cmds>>

stop_mitm_stage ==
    /\ pc = "stop_mitm"
    /\ LET s == stop_mitm(mitm, platform)
       IN  /\ mitm' = s.mitm
           /\ cmds' = cmds \o s.cmds
           /\ IF s.raised # "" THEN Raise(s.raised)
              ELSE Goto("unset_iptables")
    /\ calls' = Append(calls, "stop_mitm")
    /\ UNCHANGED <<timeVars, platform, magisk, net, installed, appRunning,
                   uid, pid, network_activity>>

unset_iptables_stage ==
    /\ pc = "unset_iptables"
    /\ \E f \in UnsetFaults :
         LET r == unset_iptables(net, platform, f)
         IN  /\ net' = r.net
             /\ cmds' = cmds \o r.cmds
             /\ IF r.raised # "" THEN Raise(r.raised)
                ELSE Goto("read_har")
    /\ calls' = Append(calls, "unset_iptables")
    /\ UNCHANGED <<timeVars, platform, magisk, mitm, installed, appRunning,
                   uid, pid, network_activity>>

\* try: json.load(open(dump.har)) / except IOError / finally: stop_mitm().
\*   "loaded"   the capture was read
\*   "ioerror"  IOError, caught and logged; network_activity stays []
\*   "badjson"  json.load raises a ValueError, which is not caught: the
\*              finally block runs and the exception ends the run
HarOutcomes == {"loaded", "ioerror", "badjson"}

\* Variant without the except clause: the IOError escapes.
read_capture_uncaught(har) ==
    CASE har = "loaded"  -> [network_activity |-> "har", raised |-> ""]
      [] har = "ioerror" -> [network_activity |-> "unset", raised |-> "IOError"]
      [] har = "badjson" ->
           [network_activity |-> "unset", raised |-> "JSONDecodeError"]

\* The try / except of the capture read: the value bound to
\* network_activity ("empty" is the initial []), and the exception that
\* escapes ("" if none).
read_capture(har) ==
    CASE har = "loaded"  -> [network_activity |-> "har", raised |-> ""]
      [] har = "ioerror" -> [network_activity |-> "empty", raised |-> ""]
      [] har = "badjson" ->
           [network_activity |-> "unset", raised |-> "JSONDecodeError"]

\* The capture read in the transcript: opening and reading the file, then
\* decoding it when the read went through.
HarCmds(har) ==
    IF har = "ioerror" THEN <<C("read dump.har", TRUE)>>
    ELSE <<C("read dump.har", FALSE), C("json.load", har = "badjson")>>

read_har ==
    /\ pc = "read_har"
    /\ \E har \in HarOutcomes :
         LET s == stop_mitm(mitm, platform)
             r == read_capture(har)
         IN  /\ mitm' = s.mitm
             /\ cmds' = cmds \o HarCmds(har) \o s.cmds
             /\ IF s.raised # ""
                THEN Raise(s.raised) /\ network_activity' = network_activity
                ELSE IF r.raised # ""
                THEN Raise(r.raised) /\ network_activity' = network_activity
                ELSE /\ Goto("remove_apk")
                     /\ network_activity' = r.network_activity
    /\ calls' = Append(calls, "stop_mitm")
    /\ UNCHANGED <<timeVars, platform, magisk, net, installed, appRunning,
                   uid, pid>>

----------------------------------------------------------------------------
(* Stages of main() after the dynamic analysis.                            *)

\* Variant that leaves alone a package the run did not install itself.
remove_apk_own_install_only ==
    /\ pc = "remove_apk"
    /\ \E success \in BOOLEAN :
         IF \E i \in 1..Len(cmds) : cmds[i].cmd = "pm install"
         THEN /\ cmds' = Append(cmds, C("pm uninstall", ~success))
              /\ IF success
                 THEN Goto("make_report") /\ installed' = FALSE
                 ELSE /\ Raise("Package uninstallation error!")
                      /\ installed' = installed
         ELSE /\ Goto("make_report")
              /\ UNCHANGED <<cmds, installed>>
    /\ calls' = Append(calls, "remove_apk")
    /\ UNCHANGED <<timeVars, platform, magisk, net, mitm, appRunning,
                   uid, pid, network_activity>>

remove_apk ==
    /\ pc = "remove_apk"
    /\ \E success \in BOOLEAN :
         /\ cmds' = Append(cmds, C("pm uninstall", ~success))
         /\ IF success
            THEN Goto("make_report") /\ installed' = FALSE
            ELSE /\ Raise("Package uninstallation error!")
                 /\ installed' = installed
    /\ calls' = Append(calls, "remove_apk")
    /\ UNCHANGED <<timeVars, platform, magisk, net, mitm, appRunning,
                   uid, pid, network_activity>>

make_report ==
    /\ pc = "make_report"
    /\ Goto("Complete")
    /\ calls' = Append(calls, "make_report")
    /\ UNCHANGED <<timeVars, platform, magisk, net, mitm, installed, appRunning,
                   uid, pid, network_activity, cmds>>

Next ==
    \/ check_command_line
    \/ start_jadx
    \/ check_device
    \/ get_badging
    \/ install_apk
    \/ perform_static_analysis
    \/ get_uid
    \/ set_iptables_stage
    \/ start_mitm
    \/ start_application
    \/ activity
    \/ activity_loop
    \/ get_geo
    \/ stop_application
    \/ stop_mitm_stage
    \/ unset_iptables_stage
    \/ read_har
    \/ remove_apk
    \/ make_report

Spec == Init /\ [][Next]_vars

\* The run under the assumption that every external command returns and
\* the clock advances: the single thread of main() always takes its next
\* step.
SpecFair == Spec /\ WF_vars(Next)

----------------------------------------------------------------------------
(* The same run with an external termination signal.  The program installs *)
(* no signal handler and has no try / finally around its stages: SIGTERM   *)
(* ends the process where it stands, and the KeyboardInterrupt of SIGINT   *)
(* propagates out of main() uncaught.                                      *)

terminate ==
    /\ ~Terminal
    /\ Raise("terminated by signal")
    /\ UNCHANGED <<timeVars, platform, magisk, net, mitm, installed,
                   appRunning, uid, pid, network_activity, calls, cmds>>

NextSignal ==
    \/ Next
    \/ terminate

SpecSignal == Init /\ [][NextSignal]_vars

----------------------------------------------------------------------------
(* The network and proxy operations called directly, outside main(): up   *)
(* to MaxOpCalls calls in any order, each with any command outputs.  err   *)
(* holds what the last call raised ("" when it returned).                  *)

InitOps ==
    /\ pc = "ops"
    /\ err = ""
    /\ platform \in Platforms
    /\ magisk \in BOOLEAN
    /\ net \in CleanNets
    /\ mitm = "none"
    /\ installed = FALSE
    /\ appRunning = FALSE
    /\ uid = "u0_a123"
    /\ pid = ""
    /\ network_activity = "unset"
    /\ calls = <<>>
    /\ cmds = <<>>
    /\ now = 0
    /\ activity_time = 1
    /\ start_timestamp = -1
    /\ entered = -1
    /\ passed_time = 0

ops_set_iptables ==
    /\ pc = "ops" /\ Len(calls) < MaxOpCalls
    /\ \E f \in SetFaults :
         LET r == set_iptables(net, platform, f)
         IN  net' = r.net /\ cmds' = cmds \o r.cmds /\ err' = r.raised
    /\ calls' = Append(calls, "set_iptables")
    /\ UNCHANGED <<timeVars, pc, platform, magisk, mitm, installed, appRunning,
                   uid, pid, network_activity>>

ops_unset_iptables ==
    /\ pc = "ops" /\ Len(calls) < MaxOpCalls
    /\ \E f \in UnsetFaults :
         LET r == unset_iptables(net, platform, f)
         IN  net' = r.net /\ cmds' = cmds \o r.cmds /\ err' = r.raised
    /\ calls' = Append(calls, "unset_iptables")
    /\ UNCHANGED <<timeVars, pc, platform, magisk, mitm, installed, appRunning,
                   uid, pid, network_activity>>

ops_start_mitm ==
    /\ pc = "ops" /\ Len(calls) < MaxOpCalls
    /\ mitm # "running"
    /\ \E process \in {"running", "exited"} :
         LET r == start_mitm_fn(process, platform)
         IN  mitm' = r.mitm /\ cmds' = cmds \o r.cmds /\ err' = r.raised
    /\ calls' = Append(calls, "start_mitm")
    /\ UNCHANGED <<timeVars, pc, platform, magisk, net, installed, appRunning,
                   uid, pid, network_activity>>

ops_stop_mitm ==
    /\ pc = "ops" /\ Len(calls) < MaxOpCalls
    /\ LET s == stop_mitm(mitm, platform)
       IN  mitm' = s.mitm /\ cmds' = cmds \o s.cmds /\ err' = s.raised
    /\ calls' = Append(calls, "stop_mitm")
    /\ UNCHANGED <<timeVars, pc, platform, magisk, net, installed, appRunning,
                   uid, pid, network_activity>>

NextOps ==
    \/ ops_set_iptables
    \/ ops_unset_iptables
    \/ ops_start_mitm
    \/ ops_stop_mitm

SpecOps == InitOps /\ [][NextOps]_vars

----------------------------------------------------------------------------
(* Vocabulary of the properties.                                           *)

Count(seq, x) == Cardinality({i \in 1..Len(seq) : seq[i] = x})

Has(seq, x) == \E i \in 1..Len(seq) : seq[i] = x

Issued(c) == \E i \in 1..Len(cmds) : cmds[i].cmd = c

Failed(c) == \E i \in 1..Len(cmds) : cmds[i].cmd = c /\ cmds[i].fail

HostPhaseNames ==
    {"ipt1_host", "ipt2_host", "ipt3_host", "ipt4_host", "ipt5_host",
     "ipt1_host_mac"}

DeviceDefaultDeny == net.devPolicy = "DROP"

DeviceApplied == net.devPolicy = "DROP" /\ net.devUidAccept

HostApplied == "redirect" \in net.hostNat

\* Failures raised by the stages that follow a successful set_iptables.
AfterIsolationErrors ==
    {"Mitmdump startup error", "Runtime error!",
     "Error stopping the application!", "Device iptables unset error",
     "Host iptables unset error!"}

----------------------------------------------------------------------------
\* C1: when the device phase of set_iptables succeeded and the host phase
\* reports an error, the device egress policy is ACCEPT again by the time
\* the host setup error ends the run.
C1_RollbackOnHostFailure ==
    (pc = "Aborted" /\ err = "Host setup error!") => net.devPolicy = "ACCEPT"

\* C2: a run that aborts in proxy start, launch, stop or clear has invoked,
\* in this order, stop_mitm, stop_application (when the application was
\* launched) and unset_iptables.
C2_AbortTeardown ==
    (pc = "Aborted" /\ err \in AfterIsolationErrors) =>
        \E i, k \in 1..Len(calls) :
            /\ i < k
            /\ calls[i] = "stop_mitm"
            /\ calls[k] = "unset_iptables"
            /\ pid # "" => \E j \in (i+1)..(k-1) : calls[j] = "stop_application"

\* C3: every finished run that got as far as install_apk, completed or
\* aborted at any stage from there on, has invoked remove_apk exactly once.
C3_UninstallExactlyOnce ==
    (Terminal /\ Has(calls, "install_apk")) => Count(calls, "remove_apk") = 1

\* C4: in every terminal state the device egress policy is ACCEPT and the
\* host NAT table holds no redirect rule of the run.
C4_TerminalNetworkClean ==
    Terminal => (net.devPolicy = "ACCEPT" /\ ~HostApplied)

\* C5: when dev_drop or dev_accept reports an error, no host-phase command
\* is issued in the run and the run ends with the device setup error.
C5_DeviceFailureSkipsHost ==
    (Failed("dev_drop") \/ Failed("dev_accept")) =>
        /\ pc = "Aborted"
        /\ err = "Device setup error!"
        /\ \A c \in HostPhaseNames : ~Issued(c)

\* C5 witness: the default-deny policy went in, the uid rule reported an
\* error, and the run has ended.
C5_Witness ==
    /\ Issued("dev_drop") /\ ~Failed("dev_drop") /\ Failed("dev_accept")
    /\ pc = "Aborted"
    /\ DeviceDefaultDeny

\* C6 (as claimed): every finished run in which start_mitm returned has
\* invoked stop_mitm exactly once.
C6_StopExactlyOnce ==
    (Terminal /\ Has(calls, "start_mitm")) => Count(calls, "stop_mitm") = 1

\* C6 (amended): a finished run in which start_mitm returned has invoked
\* stop_mitm once when it aborted in start_application, stop_application
\* or unset_iptables, and twice when it got past unset_iptables (the call
\* after stop_application and the one in the finally block of the capture
\* read); the proxy is not running at the end.
C6_StopOnceOrTwice ==
    (Terminal /\ Has(calls, "start_mitm")) =>
        /\ mitm # "running"
        /\ Count(calls, "stop_mitm") =
              IF pc = "Aborted" /\ err \in AfterIsolationErrors THEN 1 ELSE 2

\* C6 witness: a completed run, with its two stop_mitm calls.
C6_Witness ==
    pc = "Complete" /\ Count(calls, "stop_mitm") = 2 /\ mitm = "stopped"

\* C7: stop_mitm never raises, and a stop_mitm that directly follows
\* another stop_mitm leaves the proxy stopped and everything else as it
\* was.
C7_StopIdempotent ==
    [][ calls' = Append(calls, "stop_mitm") =>
          /\ err' = ""
          /\ (Len(calls) > 0 /\ calls[Len(calls)] = "stop_mitm") =>
                /\ mitm' = mitm
                /\ mitm' # "running"
                /\ net' = net
                /\ <<installed', appRunning'>> = <<installed, appRunning>>
      ]_vars

\* C7 witness: a running proxy stopped twice in a row.
C7_Witness ==
    /\ pc = "ops"
    /\ calls = <<"start_mitm", "stop_mitm", "stop_mitm">>
    /\ mitm = "stopped"
    /\ err = ""

NoRulePresent(n) ==
    /\ n.devPolicy = "ACCEPT"
    /\ ~n.devUidAccept
    /\ n.devNat = {}
    /\ n.hostNat = {}

\* C8: an unset_iptables call whose commands report nothing raises
\* nothing, whatever set_iptables did or did not do before; afterwards the
\* device policy is ACCEPT, and when no rule was present the network state
\* is unchanged.
C8_ClearIsSafe ==
    [][ ( /\ calls' = Append(calls, "unset_iptables")
          /\ \A i \in (Len(cmds)+1)..Len(cmds') : ~cmds'[i].fail ) =>
          /\ err' = ""
          /\ net'.devPolicy = "ACCEPT"
          /\ NoRulePresent(net) => net' = net
      ]_vars

\* C8 witness: set_iptables stopped half-way (policy DROP set, uid rule
\* refused), then unset_iptables returned normally.
C8_Witness ==
    /\ pc = "ops"
    /\ calls = <<"set_iptables", "unset_iptables">>
    /\ ~cmds[1].fail /\ cmds[2].fail
    /\ \A i \in 3..Len(cmds) : ~cmds[i].fail
    /\ err = ""
    /\ net.devPolicy = "ACCEPT"

\* C9: every finished run that invoked set_iptables has cleared the host
\* rules once and the device rules once, the host rules first.
C9_ClearedOnceHostFirst ==
    (Terminal /\ Has(calls, "set_iptables")) =>
        /\ Cardinality({i \in 1..Len(cmds) : cmds[i].cmd = "unset ipt1_host"}) = 1
        /\ Cardinality({i \in 1..Len(cmds) : cmds[i].cmd = "ipt1_device"}) = 1
        /\ \E i, j \in 1..Len(cmds) :
              /\ i < j
              /\ cmds[i].cmd = "unset ipt1_host"
              /\ cmds[j].cmd = "ipt1_device"

\* C10: in every state, the host redirect rule is in place only if the
\* device is under default-deny with the uid exception.
C10_HostOnlyIfDevice ==
    HostApplied => DeviceApplied

----------------------------------------------------------------------------
\* C11 (as claimed): a completed run has invoked stop_mitm, then
\* stop_application, then unset_iptables.
C11_StopProxyThenApp ==
    pc = "Complete" =>
        \E i, j, k \in 1..Len(calls) :
            /\ i < j /\ j < k
            /\ calls[i] = "stop_mitm"
            /\ calls[j] = "stop_application"
            /\ calls[k] = "unset_iptables"

\* C11 (amended): a completed run has invoked stop_application, then its
\* first stop_mitm, then unset_iptables: the reverse of the order in which
\* set_iptables, start_mitm and start_application were invoked.
C11_StopAppThenProxy ==
    pc = "Complete" =>
        \E i, j, k \in 1..Len(calls) :
            /\ i < j /\ j < k
            /\ calls[i] = "stop_application"
            /\ calls[j] = "stop_mitm"
            /\ \A m \in 1..(j-1) : calls[m] # "stop_mitm"
            /\ calls[k] = "unset_iptables"
            /\ \E a, b, c \in 1..(i-1) :
                  /\ a < b /\ b < c
                  /\ calls[a] = "set_iptables"
                  /\ calls[b] = "start_mitm"
                  /\ calls[c] = "start_application"

\* C11 witness: a completed run on a linux host, network cleared.
C11_Witness ==
    /\ pc = "Complete"
    /\ platform = "linux"
    /\ Issued("unset ipt1_host")
    /\ ~HostApplied

\* C12: when mitmdump has exited within the settle delay, start_mitm raises
\* the startup error and neither start_application nor activity is
\* invoked.
C12_ProxyExitAborts ==
    Failed("mitmdump") =>
        /\ pc = "Aborted"
        /\ err = "Mitmdump startup error"
        /\ ~Has(calls, "start_application")
        /\ ~Has(calls, "activity")

\* C13: activity entered d seconds after the anchor, 0 <= d < T, returns
\* after more than T - d and at most T - d plus one polling interval.
C13_Anchoring ==
    LET d == entered - start_timestamp
        blocked == now - entered
    IN  (pc = "get_geo" /\ 0 <= d /\ d < activity_time) =>
            /\ blocked > activity_time - d
            /\ blocked <= activity_time - d + SleepSeconds + MaxJitter

\* C13 witness: activity entered late has returned having blocked for less
\* than T.
C13_Witness ==
    /\ pc = "get_geo"
    /\ entered - start_timestamp > 0
    /\ entered - start_timestamp < activity_time
    /\ now - entered < activity_time

StageOrder ==
    <<"check_device", "install_apk", "get_uid", "set_iptables", "start_mitm",
      "start_application", "activity", "stop_application", "unset_iptables",
      "remove_apk", "make_report">>

IsStage(f) == \E i \in 1..Len(StageOrder) : StageOrder[i] = f

\* Commands whose output decides whether their stage raises.
CheckedCmds ==
    {"jadx", "adb devices", "aapt dump badging", "setenforce 0", "adb push",
     "pm install", "dumpsys package", "dev_drop", "dev_accept", "ipt1_host",
     "ipt5_host", "ps | grep package", "ps -p pid", "ipt1_device",
     "ipt2_device", "unset ipt1_host", "pm uninstall"}

\* C14: the stages invoked so far are a prefix of the stage order; a stage
\* whose checked command failed ends the run (so nothing is invoked after
\* it); an aborted run has written no report.
C14_LinearGating ==
    LET st == SelectSeq(calls, IsStage)
    IN  /\ Len(st) <= Len(StageOrder)
        /\ \A i \in 1..Len(st) : st[i] = StageOrder[i]
        /\ (\E c \in CheckedCmds : Failed(c)) => pc = "Aborted"
        /\ pc = "Aborted" => ~Has(calls, "make_report")

\* C14 witness: a completed run went through every stage, in order.
C14_Witness ==
    pc = "Complete" /\ SelectSeq(calls, IsStage) = StageOrder

C16_SignalTeardown ==
    (pc = "Aborted" /\ err = "terminated by signal") =>
        /\ Has(calls, "start_mitm") => Has(calls, "stop_mitm")
        /\ pid # "" => Has(calls, "stop_application")
        /\ Has(calls, "set_iptables") => Has(calls, "unset_iptables")

\* C17: install_apk with the package already listed issues the listing
\* and nothing else, raises nothing, and main() goes on to the next call.
C17_InstallNoOp ==
    [][ (pc = "install_apk" /\ installed) =>
          /\ cmds' = Append(cmds, C("pm list packages | grep package", FALSE))
          /\ installed'
          /\ err' = ""
          /\ pc' = "perform_static_analysis"
      ]_vars

\* C17 witness: install_apk has returned without touching the device.
C17_Witness ==
    /\ pc = "perform_static_analysis"
    /\ installed
    /\ Issued("pm list packages | grep package")
    /\ ~Issued("setenforce 0") /\ ~Issued("adb push") /\ ~Issued("pm install")

\* Names of the commands a step added to the transcript.
NewCmdNames ==
    [i \in 1..(Len(cmds') - Len(cmds)) |-> cmds'[Len(cmds) + i].cmd]

NoNewFailure == \A i \in (Len(cmds)+1)..Len(cmds') : ~cmds'[i].fail

\* C18 (as claimed): an unset_iptables call in which no command reports an
\* error issues the device policy restore, the device NAT flush and the
\* host NAT flush, in this order.
C18_ClearThreeSteps ==
    [][ (calls' = Append(calls, "unset_iptables") /\ NoNewFailure) =>
          NewCmdNames = <<"ipt1_device", "ipt2_device", "unset ipt1_host">>
      ]_vars

\* C18 (amended): every unset_iptables call starts with the device policy
\* restore followed by the device NAT flush; when no command reports an
\* error, a linux host then flushes its NAT table and a darwin host issues
\* nothing more.
C18_ClearStepOrder ==
    [][ calls' = Append(calls, "unset_iptables") =>
          /\ Len(NewCmdNames) >= 2
          /\ NewCmdNames[1] = "ipt1_device"
          /\ NewCmdNames[2] = "ipt2_device"
          /\ NoNewFailure =>
                NewCmdNames =
                   IF platform = "linux"
                   THEN <<"ipt1_device", "ipt2_device", "unset ipt1_host">>
                   ELSE <<"ipt1_device", "ipt2_device">>
      ]_vars

\* C18 witness: a full set_iptables then a full unset_iptables on linux.
C18_Witness ==
    /\ pc = "ops"
    /\ platform = "linux"
    /\ calls = <<"set_iptables", "unset_iptables">>
    /\ \A i \in 1..Len(cmds) : ~cmds[i].fail
    /\ Len(cmds) = 10
    /\ cmds[8].cmd = "ipt1_device"
    /\ cmds[10].cmd = "unset ipt1_host"

InstallFailed ==
    Failed("setenforce 0") \/ Failed("adb push") \/ Failed("pm install")

\* C19: pid and start timestamp exist only together and only after the
\* process was observed following the launch intent; an unobserved launch
\* raises the runtime error, yields neither, and activity is not entered;
\* get_uid is invoked only after install_apk returned without raising.
C19_LaunchVerified ==
    /\ (pid # "" \/ start_timestamp # -1) =>
          /\ pid # "" /\ start_timestamp # -1
          /\ Issued("monkey")
          /\ ~Failed("ps | grep package")
    /\ Failed("ps | grep package") =>
          /\ pc = "Aborted" /\ err = "Runtime error!"
          /\ pid = "" /\ start_timestamp = -1
          /\ ~Has(calls, "activity")
    /\ (Has(calls, "get_uid") \/ uid # "") =>
          /\ Has(calls, "install_apk")
          /\ ~InstallFailed

\* C19 witness: the launch intent was issued and the process not observed.
C19_Witness ==
    /\ Issued("monkey")
    /\ Failed("ps | grep package")
    /\ err = "Runtime error!"
    /\ pid = ""
    /\ uid = "u0_a123"

\* C20: when the dump holds no uid, get_uid ends the run with its uid
\* error and no network command was issued on device or host.
C20_UidFailure ==
    Failed("dumpsys package") =>
        /\ pc = "Aborted"
        /\ err = "Error getting the uid!"
        /\ ~Issued("dev_drop") /\ ~Issued("dev_accept")
        /\ \A c \in HostPhaseNames : ~Issued(c)

InstallOrder ==
    <<"pm list packages | grep package", "setenforce 0", "adb push",
      "pm install">>

\* C21: install_apk with the package not listed issues the listing, then
\* setenforce, push and installer in this order, each only when the one
\* before it did not fail; a failed step raises, and an installer output
\* without the success marker ends the run before any network command.
C21_FreshInstall ==
    /\ [][ (pc = "install_apk" /\ ~installed) =>
             /\ Len(NewCmdNames) >= 2
             /\ Len(NewCmdNames) <= Len(InstallOrder)
             /\ \A i \in 1..Len(NewCmdNames) : NewCmdNames[i] = InstallOrder[i]
             /\ \A i \in (Len(cmds)+1)..(Len(cmds')-1) : ~cmds'[i].fail
             /\ cmds'[Len(cmds')].fail <=> pc' = "Aborted"
             /\ ~cmds'[Len(cmds')].fail =>
                   /\ Len(NewCmdNames) = Len(InstallOrder)
                   /\ installed'
                   /\ pc' = "perform_static_analysis"
         ]_vars
    /\ [](Failed("pm install") =>
             /\ pc = "Aborted"
             /\ err = "APK installation error!"
             /\ ~Has(calls, "set_iptables")
             /\ ~Issued("dev_drop"))

\* C21 witness: a fresh install that went through all three steps.
C21_Witness ==
    /\ Issued("setenforce 0") /\ Issued("adb push") /\ Issued("pm install")
    /\ ~InstallFailed
    /\ installed
    /\ pc = "perform_static_analysis"

\* C22: every run reaches Complete or Aborted; in particular every run
\* that enters the loop of activity() leaves it.
C22_Termination ==
    /\ <>Terminal
    /\ (pc = "activity_loop") ~> (pc # "activity_loop")

\* C22 witness: a completed run whose activity() slept at least twice.
C22_Witness ==
    /\ pc = "Complete"
    /\ entered >= 0
    /\ now - entered >= 2 * SleepSeconds

\* C23: every finished run in which start_mitm returned has invoked
\* stop_mitm at least once, and the proxy is not running.
C23_ProxyStoppedAtEnd ==
    (Terminal /\ Has(calls, "start_mitm")) =>
        /\ Has(calls, "stop_mitm")
        /\ mitm # "running"

\* C23 witness: a run aborted by stop_application, proxy stopped.
C23_Witness ==
    /\ pc = "Aborted"
    /\ err = "Error stopping the application!"
    /\ Has(calls, "stop_mitm")
    /\ mitm = "stopped"

\* C24: an unset_iptables call in which a device command reports an error
\* raises the device error, issues no host NAT flush and leaves the host
\* NAT table as it was.
C24_DeviceClearFailureSkipsHost ==
    [][ ( /\ calls' = Append(calls, "unset_iptables")
          /\ \/ cmds'[Len(cmds) + 1].fail
             \/ cmds'[Len(cmds) + 2].fail ) =>
          /\ err' = "Device iptables unset error"
          /\ Len(NewCmdNames) = 2
          /\ \A i \in 1..Len(NewCmdNames) : NewCmdNames[i] # "unset ipt1_host"
          /\ net'.hostNat = net.hostNat
      ]_vars

\* C24 witness: the redirect rule of a successful set_iptables is still in
\* place after an unset_iptables whose device NAT flush reported an error.
C24_Witness ==
    /\ pc = "ops"
    /\ platform = "linux"
    /\ calls = <<"set_iptables", "unset_iptables">>
    /\ Failed("ipt2_device")
    /\ ~Failed("ipt1_device")
    /\ err = "Device iptables unset error"
    /\ HostApplied

\* C25: in a completed run the package is absent from the device, whether
\* install_apk installed it or found it already there, and remove_apk was
\* invoked once.
C25_UninstalledAfterSuccess ==
    pc = "Complete" =>
        /\ ~installed
        /\ Count(calls, "remove_apk") = 1
        /\ Issued("pm uninstall")

\* C25 witness: a completed run that found the package already installed.
C25_Witness ==
    /\ pc = "Complete"
    /\ ~Issued("pm install")
    /\ ~installed

====
